---- MODULE Spec2Model ----
(***************************************************************************)
(* A model of polymer-analyzer's incremental analysis core:                *)
(*   - AsyncCyclicTransitivePromiseAll (the cycle-tolerant transitive      *)
(*     join behind DependencyGraph.whenReady), and                         *)
(*   - AnalyzerCacheContext (the memoized parse / local scan / transitive  *)
(*     scan / analyze pipeline, and forking on filesChanged/clearCaches).  *)
(*                                                                         *)
(* JavaScript runs one task at a time; an async function runs              *)
(* synchronously up to its next await.  Continuations of settled promises  *)
(* are microtasks: they all run, one after the other, before the next      *)
(* task (a caller's call, an answer of the loader) is handled.  An action  *)
(* of the pipeline is one task with the microtasks it leaves behind.       *)
(***************************************************************************)
EXTENDS Integers, Sequences, FiniteSets, TLC

(***************************************************************************)
(* Bounds of the model.                                                    *)
(***************************************************************************)
\* Longest successor list handed to resolve() in the stand-alone join spec.
MaxDeps == 2

\* How many failing (repeated) resolve() calls the join harness makes.
MaxResolveErrors == 1

\* How many AnalyzerCacheContext objects exist at most (the root and its forks).
MaxContexts == 2

\* The keys / resolved URLs of the model.
Url == {"a.html", "b.html", "c.html", "missing.html", "x.foo",
        "bower_components/d.html"}

\* Keys used when the join primitive is exercised on its own, and the keys
\* the harness calls promiseAllTransitive on.
JoinKeys == {"a.html", "b.html", "c.html"}
JoinStarts == {"a.html", "b.html"}

VARIABLES
  _deferreds,   \* AsyncCyclicTransitivePromiseAll._deferreds of every instance:
                \* <<instance, key>> -> [resolved, value]
  joins,        \* promiseAllTransitive calls, running or returned, by call id
  resolveErrors,\* <<instance, key>> of the resolve() calls that threw
  fs,           \* what the UrlLoader serves: url -> [imports, parse]
  contexts,     \* the AnalyzerCacheContext objects, in order of construction
  parsedDocumentPromises,      \* AnalysisCache fields of every cache:
  scannedDocumentPromises,     \*   <<cache, url>> -> the context whose
  dependenciesScannedPromises, \*   closure computes the memoized promise
  analyzedDocumentPromises,
  scannedDocuments,            \* <<cache, url>> -> ScannedDocument (its creator)
  analyzedDocuments,           \* <<cache, url>> -> Document (its creator)
  parseTasks,   \* the async closures behind the memoized promises,
  localTasks,   \*   <<context, url>> -> [pc, error, ...]
  scanTasks,
  analyzeTasks,
  importTasks,  \* the async wrappers of _scan's loop: <<context, url, i>>
  warnings,     \* ScannedDocument.warnings, by document <<creator, url>>
  handles,      \* the promises analyze() returned to its callers
  forks,        \* what context i+1 was made of: forks[i] = [from, analyzed]
  packageTasks  \* the analyzePackage() call of a context: context -> [pc, ...]

joinVars == <<_deferreds, joins, resolveErrors>>

cacheVars == <<parsedDocumentPromises, scannedDocumentPromises,
               dependenciesScannedPromises, analyzedDocumentPromises,
               scannedDocuments, analyzedDocuments>>

taskVars == <<parseTasks, localTasks, scanTasks, analyzeTasks, importTasks>>

pipelineVars == <<fs, contexts, cacheVars, taskVars, warnings, handles, forks,
                  packageTasks>>

vars == <<joinVars, pipelineVars>>

(***************************************************************************)
(* Generic helpers.                                                        *)
(***************************************************************************)
\* Map.set on a map modelled as a function whose DOMAIN is its key set.
MapSet(m, k, v) == [x \in (DOMAIN m) \cup {k} |-> IF x = k THEN v ELSE m[x]]

\* All sequences over S of length at most n.
SeqsUpTo(S, n) == UNION {[1..i -> S] : i \in 0..n}

\* The elements of a sequence.
Range(s) == {s[i] : i \in DOMAIN s}

\* Number of occurrences of x in sequence s.
Occurrences(s, x) == Cardinality({i \in DOMAIN s : s[i] = x})

(***************************************************************************)
(* Deferred (utils): a single-assignment cell.                             *)
(***************************************************************************)
NewDeferred == [resolved |-> FALSE, value |-> <<>>]

(***************************************************************************)
(* AsyncCyclicTransitivePromiseAll                                         *)
(***************************************************************************)
\* A slip: _getDeferredFor makes a Deferred on every reference.
GetDeferredForAlwaysNew(defs, g, key) == MapSet(defs, <<g, key>>, NewDeferred)

\* _getDeferredFor(key): the map after the call (the deferred is created on
\* first reference and then shared).
GetDeferredFor(defs, g, key) ==
  IF <<g, key>> \in DOMAIN defs THEN defs ELSE MapSet(defs, <<g, key>>, NewDeferred)

\* Is the deferred of key completed in instance g?
IsRecorded(defs, g, key) ==
  /\ <<g, key>> \in DOMAIN defs
  /\ defs[<<g, key>>].resolved

\* visited.has(key)
VisitedHas(visited, key) == key \in visited

\* A slip: the key is never remembered as visited.
VisitedAddForgotten(visited, key) == visited

\* visited.add(key)
VisitedAdd(visited, key) == visited \cup {key}

\* new Set<Key>() of promiseAllTransitive
NewVisited == {}

\* The synchronous stretch of _transitiveAwait after an await returned:
\* continue the for-loops of the active frames (innermost last in `stack')
\* until the next deferred has to be awaited or the outermost call returns.
\* j is the call's record: [graph, key, visited, log, stack, waiting].
RECURSIVE TransitiveAwaitRun(_)
TransitiveAwaitRun(j) ==
  IF j.stack = <<>>
  THEN [j EXCEPT !.waiting = <<>>]
  ELSE LET n == Len(j.stack)
           top == j.stack[n]
       IN IF top = <<>>
          THEN TransitiveAwaitRun([j EXCEPT !.stack = SubSeq(j.stack, 1, n - 1)])
          ELSE LET dep == Head(top)
                   rest == [j EXCEPT !.stack[n] = Tail(top)]
               IN IF VisitedHas(j.visited, dep)
                  THEN TransitiveAwaitRun(rest)
                  ELSE [rest EXCEPT !.visited = VisitedAdd(j.visited, dep),
                                    !.log = Append(j.log, dep),
                                    !.waiting = <<dep>>]

\* The call record right after promiseAllTransitive(key) reached its first
\* await: the key is visited and its deferred is awaited.
TransitiveAwaitStart(g, key) ==
  TransitiveAwaitRun([graph |-> g, key |-> key, visited |-> NewVisited,
                      log |-> <<>>, stack |-> << <<key>> >>, waiting |-> <<>>])

\* Every deferred a call is waiting on exists (created by _getDeferredFor).
WithAwaitedDeferred(defs, j) ==
  IF j.waiting = <<>> THEN defs ELSE GetDeferredFor(defs, j.graph, j.waiting[1])

\* The call record j when its await of line 42 has returned the deps and
\* the call has run on to its next await or to its return.
TransitiveAwaitResumed(defs, j) ==
  TransitiveAwaitRun(
    [j EXCEPT !.stack = Append(j.stack, defs[<<j.graph, j.waiting[1]>>].value),
              !.waiting = <<>>])

\* The await of line 42 returns for call id: the deps are iterated.
TransitiveAwaitResume(id) ==
  /\ id \in DOMAIN joins
  /\ joins[id].waiting # <<>>
  /\ IsRecorded(_deferreds, joins[id].graph, joins[id].waiting[1])
  /\ LET next == TransitiveAwaitResumed(_deferreds, joins[id])
     IN /\ joins' = [joins EXCEPT ![id] = next]
        /\ _deferreds' = WithAwaitedDeferred(_deferreds, next)

(***************************************************************************)
(* The join primitive on its own: instance 0, driven by a test harness.    *)
(***************************************************************************)
Standalone == 0

\* A slip: a second resolve(key, deps) completes the Deferred again.
ResolveOverwrites(key, deps) ==
  /\ _deferreds' = MapSet(_deferreds, <<Standalone, key>>,
                          [resolved |-> TRUE, value |-> deps])
  /\ UNCHANGED <<joins, resolveErrors, pipelineVars>>

\* resolve(key, deps)
Resolve(key, deps) ==
  LET defs == GetDeferredFor(_deferreds, Standalone, key)
  IN IF defs[<<Standalone, key>>].resolved
     THEN /\ Cardinality(resolveErrors) < MaxResolveErrors
          /\ resolveErrors' = resolveErrors \cup {<<Standalone, key>>}
          /\ _deferreds' = defs
          /\ UNCHANGED <<joins, pipelineVars>>
     ELSE /\ _deferreds' = [defs EXCEPT ![<<Standalone, key>>] =
                               [resolved |-> TRUE, value |-> deps]]
          /\ UNCHANGED <<joins, resolveErrors, pipelineVars>>

\* promiseAllTransitive(key), called once per key by the harness
PromiseAllTransitive(key) ==
  /\ <<Standalone, key>> \notin DOMAIN joins
  /\ LET j == TransitiveAwaitStart(Standalone, key)
     IN /\ joins' = MapSet(joins, <<Standalone, key>>, j)
        /\ _deferreds' = WithAwaitedDeferred(_deferreds, j)
  /\ UNCHANGED <<resolveErrors, pipelineVars>>

StandaloneResume(key) ==
  /\ TransitiveAwaitResume(<<Standalone, key>>)
  /\ UNCHANGED <<resolveErrors, pipelineVars>>

JoinInit ==
  /\ _deferreds = << >>
  /\ joins = << >>
  /\ resolveErrors = {}
  /\ fs = << >>
  /\ contexts = << >>
  /\ parsedDocumentPromises = << >>
  /\ scannedDocumentPromises = << >>
  /\ dependenciesScannedPromises = << >>
  /\ analyzedDocumentPromises = << >>
  /\ scannedDocuments = << >>
  /\ analyzedDocuments = << >>
  /\ parseTasks = << >>
  /\ localTasks = << >>
  /\ scanTasks = << >>
  /\ analyzeTasks = << >>
  /\ importTasks = << >>
  /\ warnings = << >>
  /\ handles = {}
  /\ forks = << >>
  /\ packageTasks = << >>

JoinNext ==
  \/ \E key \in JoinKeys, deps \in SeqsUpTo(JoinKeys, MaxDeps) : Resolve(key, deps)
  \/ \E key \in JoinStarts : PromiseAllTransitive(key)
  \/ \E key \in JoinStarts : StandaloneResume(key)

JoinSpec == JoinInit /\ [][JoinNext]_vars

(***************************************************************************)
(* The collaborators of AnalyzerCacheContext: what the UrlLoader serves,   *)
(* the parsers and the import scanner.  A file is the list of imports the  *)
(* HtmlImportScanner finds in it and how parsing it ends ("": it parses).  *)
(***************************************************************************)
HtmlImport(url) == [url |-> url, type |-> "html-import"]
LazyHtmlImport(url) == [url |-> url, type |-> "lazy-html-import"]
File(imports) == [imports |-> imports, parse |-> ""]

\* A file whose parser throws: a WarningCarryingException or something else.
BrokenFile(thrown) == [imports |-> <<>>, parse |-> thrown]

\* a.html and b.html import each other.
CyclicWorld ==
  ("a.html" :> File(<<HtmlImport("b.html")>>)) @@
  ("b.html" :> File(<<HtmlImport("a.html")>>))

\* a.html and b.html, neither importing the other.
UnrelatedWorld ==
  ("a.html" :> File(<<>>)) @@ ("b.html" :> File(<<>>))

\* a.html imports a file that does not exist, and b.html.
MissingWorld ==
  ("a.html" :> File(<<HtmlImport("missing.html"), HtmlImport("b.html")>>)) @@
  ("b.html" :> File(<<>>))

\* a.html imports a file whose extension has no parser.
UnknownTypeWorld ==
  ("a.html" :> File(<<HtmlImport("x.foo")>>)) @@ ("x.foo" :> File(<<>>))

\* a.html imports b.html lazily.
LazyWorld ==
  ("a.html" :> File(<<LazyHtmlImport("b.html")>>)) @@ ("b.html" :> File(<<>>))

\* c.html is imported by a.html directly and through b.html.
DiamondWorld ==
  ("a.html" :> File(<<HtmlImport("b.html"), HtmlImport("c.html")>>)) @@
  ("b.html" :> File(<<HtmlImport("c.html")>>)) @@
  ("c.html" :> File(<<>>))

\* a.html makes its parser throw a WarningCarryingException, b.html a
\* SyntaxError; d.html lies in a dependency directory.
BrokenWorld ==
  ("a.html" :> BrokenFile("WarningCarryingException")) @@
  ("b.html" :> BrokenFile("SyntaxError")) @@
  ("bower_components/d.html" :> File(<<>>))

Worlds == {CyclicWorld, UnrelatedWorld, MissingWorld, UnknownTypeWorld,
           LazyWorld, DiamondWorld, BrokenWorld}

\* The worlds analyzePackage is called in.
PackageWorlds == {UnrelatedWorld, UnknownTypeWorld, BrokenWorld}

\* path.extname(url).substring(1)
Extname(url) == IF url = "x.foo" THEN "foo" ELSE "html"

\* The keys of the default _parsers map.
Parsers == {"html", "js", "css", "json"}

\* _resolveUrl: the contexts of the model have no UrlResolver.
ResolveUrl(url) == url

(***************************************************************************)
(* AsyncWorkCache (the Keyed Memoization Cache).  A cache of every         *)
(* AnalysisCache is one function <<cache, key>> -> promise; a promise is   *)
(* named by the context whose closure computes it.                         *)
(***************************************************************************)
\* The keys of S for which getOrCompute runs the compute function.
ComputedKeys(cache, k, S) == {u \in S : <<k, u>> \notin DOMAIN cache}

\* The cache after getOrCompute(u, ...) by context c for every u of S.
GetOrComputeAll(cache, k, S, c) ==
  [x \in (DOMAIN cache) \cup {<<k, u>> : u \in S} |->
     IF x \in DOMAIN cache THEN cache[x] ELSE c]

\* The promise getOrCompute(u, ...) by context c returns.
GetOrCompute(cache, k, u, c) ==
  IF <<k, u>> \in DOMAIN cache THEN cache[<<k, u>>] ELSE c

(***************************************************************************)
(* Promises and the async closures that settle them.  A closure is         *)
(* [pc, error, runs, ...]: where it is suspended, what it threw, and how   *)
(* often it was started.                                                   *)
(***************************************************************************)
Settled(t) == t.pc \in {"resolved", "rejected"}

\* The closure returns (error = "") or throws.
Settle(t, error) ==
  [t EXCEPT !.pc = IF error = "" THEN "resolved" ELSE "rejected",
            !.error = error]

Runs(tasks, x) == IF x \in DOMAIN tasks THEN tasks[x].runs ELSE 0

\* The compute functions of context c start for the keys of S; init[u] is
\* the closure for u at its first await.
StartTasks(tasks, c, S, init) ==
  [x \in (DOMAIN tasks) \cup {<<c, u>> : u \in S} |->
     IF x[1] = c /\ x[2] \in S
     THEN [init[x[2]] EXCEPT !.runs = Runs(tasks, x) + 1]
     ELSE tasks[x]]

(***************************************************************************)
(* The state of the program as one record st, for the operators that       *)
(* compute what a function does to it.                                     *)
(***************************************************************************)
State ==
  [_deferreds |-> _deferreds, joins |-> joins, resolveErrors |-> resolveErrors,
   contexts |-> contexts,
   parsedDocumentPromises |-> parsedDocumentPromises,
   scannedDocumentPromises |-> scannedDocumentPromises,
   dependenciesScannedPromises |-> dependenciesScannedPromises,
   analyzedDocumentPromises |-> analyzedDocumentPromises,
   scannedDocuments |-> scannedDocuments,
   analyzedDocuments |-> analyzedDocuments,
   parseTasks |-> parseTasks, localTasks |-> localTasks,
   scanTasks |-> scanTasks, analyzeTasks |-> analyzeTasks,
   importTasks |-> importTasks, warnings |-> warnings, handles |-> handles,
   forks |-> forks, packageTasks |-> packageTasks]

\* The program moves to state st.
Becomes(st) ==
  /\ _deferreds' = st._deferreds
  /\ joins' = st.joins
  /\ resolveErrors' = st.resolveErrors
  /\ contexts' = st.contexts
  /\ parsedDocumentPromises' = st.parsedDocumentPromises
  /\ scannedDocumentPromises' = st.scannedDocumentPromises
  /\ dependenciesScannedPromises' = st.dependenciesScannedPromises
  /\ analyzedDocumentPromises' = st.analyzedDocumentPromises
  /\ scannedDocuments' = st.scannedDocuments
  /\ analyzedDocuments' = st.analyzedDocuments
  /\ parseTasks' = st.parseTasks
  /\ localTasks' = st.localTasks
  /\ scanTasks' = st.scanTasks
  /\ analyzeTasks' = st.analyzeTasks
  /\ importTasks' = st.importTasks
  /\ warnings' = st.warnings
  /\ handles' = st.handles
  /\ forks' = st.forks
  /\ packageTasks' = st.packageTasks
  /\ UNCHANGED fs

(***************************************************************************)
(* AnalyzerCacheContext                                                    *)
(***************************************************************************)
Contexts == DOMAIN contexts

CacheOf(st, c) == st.contexts[c]._cache

\* The context `new AnalyzerCacheContext(options)' of the analyzer: it is
\* context 1 and allocates cache 1, parsers 1, scanners 1 and telemetry
\* tracker 1; the loader, resolver and lazy-edge map come with the options.
RootContext ==
  [_cache |-> 1, _generation |-> 0, _parsers |-> 1, _scanners |-> 1,
   _loader |-> 0, _resolver |-> 0, _lazyEdges |-> 0, _telemetryTracker |-> 1]

\* load(): throws, before it asks the loader, when the loader cannot load
\* the URL.
LoadOutcome(url) == IF url \in DOMAIN fs THEN "" ELSE "Can't load URL"

\* _parseContents(): throws when no parser is registered for the type, or
\* what the parser throws.
ParseContentsOutcome(url) ==
  IF Extname(url) \notin Parsers THEN "NoKnownParserError"
  ELSE IF fs[url].parse \in {"", "WarningCarryingException"} THEN fs[url].parse
  ELSE "Error parsing"

\* A slip: _scanLocal keeps every import.
AnyImportOfScanLocal(e) == TRUE

\* The imports `e.type !== 'lazy-html-import'' keeps, in _scanLocal ...
IsNonLazyImportOfScanLocal(e) == e.type # "lazy-html-import"

\* ... and in _scan.
IsNonLazyImportOfScan(e) == e.type # "lazy-html-import"

\* importUrls of _scanLocal.
ScanLocalImportUrls(url) ==
  LET imports == SelectSeq(fs[url].imports, IsNonLazyImportOfScanLocal)
  IN [i \in DOMAIN imports |-> ResolveUrl(imports[i].url)]

\* importUrl of every scannedImport of _scan's loop.
ScanImportUrls(url) ==
  LET imports == SelectSeq(fs[url].imports, IsNonLazyImportOfScan)
  IN [i \in DOMAIN imports |-> ResolveUrl(imports[i].url)]

\* The keys of S whose parse _parse computes.
ParseComputed(st, c, S) ==
  ComputedKeys(st.parsedDocumentPromises, CacheOf(st, c), S)

\* _parse(url) by context c, for every url of S: the closure runs up to
\* `await this.load(...)'.
ParseCalls(st, c, S) ==
  LET k == CacheOf(st, c)
      init == [u \in S |-> [pc |-> "load", error |-> "", runs |-> 0]]
  IN [st EXCEPT
        !.parsedDocumentPromises = GetOrComputeAll(@, k, S, c),
        !.parseTasks = StartTasks(@, c, ParseComputed(st, c, S), init)]

\* The keys of S whose local scan _scanLocal computes.
ScanLocalComputed(st, c, S) ==
  ComputedKeys(st.scannedDocumentPromises, CacheOf(st, c), S)

\* _scanLocal(url) by context c, for every url of S: the closure runs up
\* to `await this._parse(...)'.
ScanLocalCalls(st, c, S) ==
  LET k == CacheOf(st, c)
      computed == ScanLocalComputed(st, c, S)
      init == [u \in S |->
                 [pc |-> "awaitParse", error |-> "", runs |-> 0,
                  parse |-> GetOrCompute(st.parsedDocumentPromises, k, u, c)]]
  IN ParseCalls([st EXCEPT
                   !.scannedDocumentPromises = GetOrComputeAll(@, k, S, c),
                   !.localTasks = StartTasks(@, c, computed, init)],
                c, computed)

\* The keys of S whose transitive scan _scan computes.
ScanComputed(st, c, S) ==
  ComputedKeys(st.dependenciesScannedPromises, CacheOf(st, c), S)

\* _scan(url) by context c, for every url of S: the closure runs up to
\* `await this._scanLocal(...)'.
ScanCalls(st, c, S) ==
  LET k == CacheOf(st, c)
      computed == ScanComputed(st, c, S)
      init == [u \in S |->
                 [pc |-> "awaitScanLocal", error |-> "", runs |-> 0,
                  local |-> GetOrCompute(st.scannedDocumentPromises, k, u, c)]]
  IN ScanLocalCalls([st EXCEPT
                       !.dependenciesScannedPromises = GetOrComputeAll(@, k, S, c),
                       !.scanTasks = StartTasks(@, c, computed, init)],
                    c, computed)

\* A slip: analyze runs its closure again when the cached one has failed.
AnalyzeComputedAfterFailure(st, c, S) ==
  {u \in S :
     \/ <<CacheOf(st, c), u>> \notin DOMAIN st.analyzedDocumentPromises
     \/ st.analyzeTasks[<<st.analyzedDocumentPromises[<<CacheOf(st, c), u>>],
                          u>>].pc = "rejected"}

\* A slip: analyze runs its closure without looking into the cache.
AnalyzeComputedAlways(st, c, S) == S

\* The keys of S whose analysis analyze computes.
AnalyzeComputed(st, c, S) ==
  ComputedKeys(st.analyzedDocumentPromises, CacheOf(st, c), S)

\* analyze(url) by a caller holding context c: the closure runs up to
\* `await this._scan(...)', and the caller holds the promise.
AnalyzeCall(st, c, url) ==
  LET k == CacheOf(st, c)
      resolvedUrl == ResolveUrl(url)
      computed == AnalyzeComputed(st, c, {resolvedUrl})
      init == [u \in {resolvedUrl} |->
                 [pc |-> "awaitScan", error |-> "", runs |-> 0, doc |-> <<>>,
                  scan |-> GetOrCompute(st.dependenciesScannedPromises, k, u, c)]]
  IN ScanCalls([st EXCEPT
                  !.analyzedDocumentPromises =
                      GetOrComputeAll(@, k, {resolvedUrl}, c),
                  !.analyzeTasks = StartTasks(@, c, computed, init),
                  !.handles = @ \cup
                      {[context |-> c, url |-> resolvedUrl,
                        promise |-> GetOrCompute(st.analyzedDocumentPromises,
                                                 k, resolvedUrl, c)]}],
               c, computed)

\* load() has thrown: the closure of _parse goes on without the loader.
CanParseSettle(st, c, url) ==
  st.parseTasks[<<c, url>>].pc = "load" /\ LoadOutcome(url) # ""

\* The closure of _parse after `await this.load(...)': _parseContents.
ParseSettle(st, c, url) ==
  [st EXCEPT !.parseTasks[<<c, url>>] =
     Settle(@, IF LoadOutcome(url) # "" THEN LoadOutcome(url)
               ELSE ParseContentsOutcome(url))]

CanScanLocalParsed(st, c, url) ==
  /\ st.localTasks[<<c, url>>].pc = "awaitParse"
  /\ Settled(st.parseTasks[<<st.localTasks[<<c, url>>].parse, url>>])

\* _scanLocal's closure after `await this._parse(...)': a failed parse
\* fails the local scan; otherwise _scanDocument starts and awaits
\* _getScannedFeatures.
ScanLocalParsed(st, c, url) ==
  LET p == st.parseTasks[<<st.localTasks[<<c, url>>].parse, url>>]
  IN [st EXCEPT !.localTasks[<<c, url>>] =
        IF p.pc = "rejected" THEN Settle(@, p.error)
        ELSE [@ EXCEPT !.pc = "getScannedFeatures"]]

CanScanDocument(st, c, url) == st.localTasks[<<c, url>>].pc = "getScannedFeatures"

\* _scanDocument after the features are scanned: the new ScannedDocument
\* is put into scannedDocuments, unless the URL is there already; then
\* the inline documents are awaited.
ScanDocument(st, c, url) ==
  LET k == CacheOf(st, c)
  IN IF <<k, url>> \in DOMAIN st.scannedDocuments
     THEN [st EXCEPT !.localTasks[<<c, url>>] =
             Settle(@, "Scanned document already in cache")]
     ELSE [st EXCEPT !.scannedDocuments = MapSet(@, <<k, url>>, c),
                     !.warnings = MapSet(@, <<c, url>>, {}),
                     !.localTasks[<<c, url>>].pc = "scanInlineDocuments"]

\* DependencyGraph.addDocument(url, importUrls) on the graph of cache k is
\* resolve(url, importUrls) of its AsyncCyclicTransitivePromiseAll: what it
\* throws ("": nothing) ...
AddDocumentOutcome(st, k, url) ==
  IF IsRecorded(st._deferreds, k, url) THEN "Already resolved" ELSE ""

\* ... and what it does.
AddDocument(st, k, url, importUrls) ==
  IF IsRecorded(st._deferreds, k, url)
  THEN [st EXCEPT !.resolveErrors = @ \cup {<<k, url>>}]
  ELSE [st EXCEPT !._deferreds =
          MapSet(@, <<k, url>>, [resolved |-> TRUE, value |-> importUrls])]

\* A slip: _scanLocal hands the imports to the dependency graph twice.
ScanLocalFinishAddsTwice(st, c, url) ==
  LET k == CacheOf(st, c)
      once == AddDocument(st, k, url, ScanLocalImportUrls(url))
  IN [AddDocument(once, k, url, ScanLocalImportUrls(url)) EXCEPT
        !.localTasks[<<c, url>>] = Settle(@, AddDocumentOutcome(once, k, url))]

\* A slip: _scanLocal returns without updating the dependency graph.
ScanLocalFinishWithoutAddDocument(st, c, url) ==
  [st EXCEPT !.localTasks[<<c, url>>] = Settle(@, "")]

CanScanLocalFinish(st, c, url) ==
  st.localTasks[<<c, url>>].pc = "scanInlineDocuments"

\* _scanLocal's closure after `await this._scanDocument(...)': the non-lazy
\* imports are handed to the dependency graph of this context's cache.
ScanLocalFinish(st, c, url) ==
  LET k == CacheOf(st, c)
  IN [AddDocument(st, k, url, ScanLocalImportUrls(url)) EXCEPT
        !.localTasks[<<c, url>>] = Settle(@, AddDocumentOutcome(st, k, url))]

CanScanLocalSettled(st, c, url) ==
  /\ st.scanTasks[<<c, url>>].pc = "awaitScanLocal"
  /\ Settled(st.localTasks[<<st.scanTasks[<<c, url>>].local, url>>])

\* The wrappers `(async() => {...})()' of _scan's loop for url, each at
\* `await this._scan(importUrl)', added to the wrappers of the program.
WithImportTasks(tasks, st, c, url, importUrls) ==
  [x \in (DOMAIN tasks) \cup {<<c, url, i>> : i \in DOMAIN importUrls} |->
     IF x[1] = c /\ x[2] = url
     THEN [pc |-> "awaitScan", url |-> importUrls[x[3]],
           document |-> st.scanTasks[<<c, url>>].local,
           scan |-> GetOrCompute(st.dependenciesScannedPromises,
                                 CacheOf(st, c), importUrls[x[3]], c)]
     ELSE tasks[x]]

\* whenReady(url) of the dependency graph of cache k, called by _scan's
\* closure for url of context c: promiseAllTransitive(url) up to its
\* first await.
WhenReadyCall(st, c, url) ==
  LET j == TransitiveAwaitStart(CacheOf(st, c), url)
  IN [st EXCEPT !.joins = MapSet(@, <<c, url>>, j),
                !._deferreds = WithAwaitedDeferred(@, j)]

\* _scan's closure after `await this._scanLocal(...)': a failed local scan
\* fails the scan; otherwise the scan of every non-lazy import is started
\* in a wrapper of its own and whenReady(url) is awaited.
ScanLocalSettled(st, c, url) ==
  LET l == st.localTasks[<<st.scanTasks[<<c, url>>].local, url>>]
      importUrls == ScanImportUrls(url)
      called == ScanCalls([st EXCEPT !.scanTasks[<<c, url>>].pc = "whenReady"],
                          c, Range(importUrls))
  IN IF l.pc = "rejected"
     THEN [st EXCEPT !.scanTasks[<<c, url>>] = Settle(@, l.error)]
     ELSE WhenReadyCall(
            [called EXCEPT
               !.importTasks = WithImportTasks(@, st, c, url, importUrls)],
            c, url)

\* What the catch block of an import's wrapper pushes onto the importing
\* document's warnings for the error thrown by the import's scan.
ImportFailureWarnings(error, importUrl) ==
  {[code |-> "could-not-load", import |-> importUrl]}

CanImportSettled(st, c, url, i) ==
  /\ st.importTasks[<<c, url, i>>].pc = "awaitScan"
  /\ Settled(st.scanTasks[<<st.importTasks[<<c, url, i>>].scan,
                            st.importTasks[<<c, url, i>>].url>>])

\* A slip: the wrapper has no catch, the error fails the importer's scan.
ImportSettledRethrows(st, c, url, i) ==
  LET w == st.importTasks[<<c, url, i>>]
      t == st.scanTasks[<<w.scan, w.url>>]
  IN [st EXCEPT
        !.importTasks[<<c, url, i>>].pc = "done",
        !.scanTasks[<<c, url>>] =
           IF t.pc = "rejected" THEN Settle(@, t.error) ELSE @]

\* The wrapper of import i of url after `await this._scan(importUrl)'.
ImportSettled(st, c, url, i) ==
  LET w == st.importTasks[<<c, url, i>>]
      t == st.scanTasks[<<w.scan, w.url>>]
  IN [st EXCEPT
        !.importTasks[<<c, url, i>>].pc = "done",
        !.warnings[<<w.document, url>>] =
           IF t.pc = "rejected"
           THEN @ \cup ImportFailureWarnings(t.error, w.url)
           ELSE @]

CanWhenReadyResume(st, c, url) ==
  /\ st.scanTasks[<<c, url>>].pc = "whenReady"
  /\ st.joins[<<c, url>>].waiting # <<>>
  /\ IsRecorded(st._deferreds, st.joins[<<c, url>>].graph,
                st.joins[<<c, url>>].waiting[1])

\* The await inside whenReady(url) of _scan's closure returns.
WhenReadyResume(st, c, url) ==
  LET next == TransitiveAwaitResumed(st._deferreds, st.joins[<<c, url>>])
  IN [st EXCEPT !.joins[<<c, url>>] = next,
                !._deferreds = WithAwaitedDeferred(@, next)]

\* A slip: _scan returns without awaiting whenReady.
CanScanFinishEarly(st, c, url) == st.scanTasks[<<c, url>>].pc = "whenReady"

CanScanFinish(st, c, url) ==
  /\ st.scanTasks[<<c, url>>].pc = "whenReady"
  /\ st.joins[<<c, url>>].waiting = <<>>

\* _scan's closure after `await ...whenReady(resolvedUrl)'.
ScanFinish(st, c, url) ==
  [st EXCEPT !.scanTasks[<<c, url>>] = Settle(@, "")]

\* What _getDocument(url) of context c returns: <<creator>> of the Document,
\* or <<>> for undefined.
GetDocumentResult(st, c, url) ==
  LET k == CacheOf(st, c)
  IN IF <<k, url>> \in DOMAIN st.analyzedDocuments
     THEN <<st.analyzedDocuments[<<k, url>>]>>
     ELSE IF <<k, url>> \notin DOMAIN st.scannedDocuments THEN <<>> ELSE <<c>>

\* A slip: _getDocument does not look for the Document it has cached.
GetDocumentConstructsAgain(st, c, url) ==
  <<CacheOf(st, c), url>> \in DOMAIN st.scannedDocuments

\* Does _getDocument(url) of context c construct a Document?
GetDocumentConstructs(st, c, url) ==
  /\ <<CacheOf(st, c), url>> \notin DOMAIN st.analyzedDocuments
  /\ <<CacheOf(st, c), url>> \in DOMAIN st.scannedDocuments

\* A slip: _getDocument falls back on analyze when nothing is scanned.
GetDocumentStartsAnalysis(st, c, url) ==
  LET k == CacheOf(st, c)
  IN IF <<k, url>> \in DOMAIN st.analyzedDocuments THEN st
     ELSE IF <<k, url>> \notin DOMAIN st.scannedDocuments
          THEN AnalyzeCall(st, c, url)
          ELSE [st EXCEPT
                  !.analyzedDocuments = MapSet(@, <<k, url>>, c),
                  !.analyzedDocumentPromises = GetOrComputeAll(@, k, {url}, c),
                  !.analyzeTasks =
                      StartTasks(@, c, AnalyzeComputed(st, c, {url}),
                                 [u \in {url} |->
                                    [pc |-> "resolved", error |-> "", runs |-> 0,
                                     doc |-> <<c>>, scan |-> c]])]

\* What _getDocument(url) of context c does: a Document it constructs is
\* put into analyzedDocuments, and into analyzedDocumentPromises unless a
\* promise is there.
GetDocumentEffect(st, c, url) ==
  LET k == CacheOf(st, c)
      init == [u \in {url} |->
                 [pc |-> "resolved", error |-> "", runs |-> 0, doc |-> <<c>>,
                  scan |-> c]]
  IN IF GetDocumentConstructs(st, c, url)
     THEN [st EXCEPT
             !.analyzedDocuments = MapSet(@, <<k, url>>, c),
             !.analyzedDocumentPromises = GetOrComputeAll(@, k, {url}, c),
             !.analyzeTasks = StartTasks(@, c, AnalyzeComputed(st, c, {url}), init)]
     ELSE st

CanAnalyzeScanned(st, c, url) ==
  /\ st.analyzeTasks[<<c, url>>].pc = "awaitScan"
  /\ Settled(st.scanTasks[<<st.analyzeTasks[<<c, url>>].scan, url>>])

\* analyze's closure after `await this._scan(...)'.
AnalyzeScanned(st, c, url) ==
  LET t == st.scanTasks[<<st.analyzeTasks[<<c, url>>].scan, url>>]
  IN IF t.pc = "rejected"
     THEN [st EXCEPT !.analyzeTasks[<<c, url>>] = Settle(@, t.error)]
     ELSE [GetDocumentEffect(st, c, url) EXCEPT
             !.analyzeTasks[<<c, url>>] =
                [@ EXCEPT !.pc = "resolved",
                          !.doc = GetDocumentResult(st, c, url)]]

(***************************************************************************)
(* analyzePackage and _analyzeOrWarning.                                   *)
(***************************************************************************)
\* path.dirname(file)
Dirname(file) ==
  IF file = "bower_components/d.html" THEN "bower_components" ELSE "."

\* dependencyDirPrefixes
DependencyDirPrefixes == {"bower_components", "node_modules"}

\* dirname.startsWith(prefix), for the directory names of the model.
StartsWith(dirname, prefix) == dirname = prefix

\* filesInPackage
FilesInPackage(allFiles) ==
  {file \in allFiles :
     ~\E prefix \in DependencyDirPrefixes : StartsWith(Dirname(file), prefix)}

\* filesWithParsers
FilesWithParsers(filesInPackage) ==
  {fn \in filesInPackage : Extname(fn) \in Parsers}

\* `this._loader.readDirectory' is defined for the loader of the model.
LoaderReadsDirectory == TRUE

\* this._loader.readDirectory('', true)
ReadDirectory == DOMAIN fs

\* The warning a WarningCarryingException thrown for url carries.
CarriedWarning(url) ==
  [kind |-> "Warning", code |-> "parse-error", file |-> url, doc |-> <<>>]

\* The closure behind the promise analyze(url) of context c returned.
AnalyzeTask(st, c, url) ==
  st.analyzeTasks[<<st.analyzedDocumentPromises[<<CacheOf(st, c), ResolveUrl(url)>>],
                    ResolveUrl(url)>>]

\* A slip: every failure becomes an unable-to-analyze warning.
AnalyzeOrWarningUnableOnly(st, c, url) ==
  IF AnalyzeTask(st, c, url).pc = "resolved"
  THEN [kind |-> "Document", code |-> "", file |-> ResolveUrl(url),
        doc |-> AnalyzeTask(st, c, url).doc]
  ELSE [kind |-> "Warning", code |-> "unable-to-analyze",
        file |-> ResolveUrl(url), doc |-> <<>>]

\* What _analyzeOrWarning(url) of context c returns once analyze(url) is
\* settled.
AnalyzeOrWarning(st, c, url) ==
  LET t == AnalyzeTask(st, c, url)
  IN IF t.pc = "resolved"
     THEN [kind |-> "Document", code |-> "", file |-> ResolveUrl(url),
           doc |-> t.doc]
     ELSE IF t.error = "WarningCarryingException" THEN CarriedWarning(url)
     ELSE [kind |-> "Warning", code |-> "unable-to-analyze",
           file |-> ResolveUrl(url), doc |-> <<>>]

\* analyzePackage() of context c up to `await readDirectory', or to its
\* throw when the loader cannot list a directory.
AnalyzePackageCall(st, c) ==
  [st EXCEPT !.packageTasks =
     MapSet(@, c, [pc |-> IF LoaderReadsDirectory THEN "readDirectory"
                          ELSE "rejected",
                   files |-> {}, documents |-> {}, warnings |-> {}])]

\* analyze(f) by context c for every f of files, one after the other.
RECURSIVE AnalyzeCalls(_, _, _)
AnalyzeCalls(st, c, files) ==
  IF files = {} THEN st
  ELSE LET f == CHOOSE g \in files : TRUE
       IN AnalyzeCalls(AnalyzeCall(st, c, f), c, files \ {f})

\* analyzePackage() after `await readDirectory': _analyzeOrWarning is
\* called for every file of the package that has a parser, and all of
\* them are awaited.
ReadDirectoryDone(st, c) ==
  LET files == FilesWithParsers(FilesInPackage(ReadDirectory))
  IN [AnalyzeCalls(st, c, files) EXCEPT
        !.packageTasks[c] = [@ EXCEPT !.pc = "promiseAll", !.files = files]]

CanPackageSettle(st, c) ==
  /\ st.packageTasks[c].pc = "promiseAll"
  /\ \A f \in st.packageTasks[c].files : Settled(AnalyzeTask(st, c, f))

\* analyzePackage() after `await Promise.all(...)': the Package.
PackageSettle(st, c) ==
  LET documentsOrWarnings ==
        {AnalyzeOrWarning(st, c, f) : f \in st.packageTasks[c].files}
  IN [st EXCEPT !.packageTasks[c] =
        [@ EXCEPT !.pc = "resolved",
                  !.documents = {d \in documentsOrWarnings : d.kind = "Document"},
                  !.warnings = {d \in documentsOrWarnings : d.kind # "Document"}]]

(***************************************************************************)
(* The event loop.  A continuation whose awaited promise is settled is a   *)
(* microtask.  The microtasks run one at a time until none is left, before *)
(* the next task (a caller's call, an answer of the loader) starts.        *)
(***************************************************************************)
\* The continuations that can run: <<function, context, url, import index>>.
PendingMicrotasks(st) ==
  {<<"ParseSettle", x[1], x[2], 0>> :
     x \in {y \in DOMAIN st.parseTasks : CanParseSettle(st, y[1], y[2])}}
  \cup {<<"ScanLocalParsed", x[1], x[2], 0>> :
     x \in {y \in DOMAIN st.localTasks : CanScanLocalParsed(st, y[1], y[2])}}
  \cup {<<"ScanDocument", x[1], x[2], 0>> :
     x \in {y \in DOMAIN st.localTasks : CanScanDocument(st, y[1], y[2])}}
  \cup {<<"ScanLocalFinish", x[1], x[2], 0>> :
     x \in {y \in DOMAIN st.localTasks : CanScanLocalFinish(st, y[1], y[2])}}
  \cup {<<"ScanLocalSettled", x[1], x[2], 0>> :
     x \in {y \in DOMAIN st.scanTasks : CanScanLocalSettled(st, y[1], y[2])}}
  \cup {<<"ImportSettled", x[1], x[2], x[3]>> :
     x \in {y \in DOMAIN st.importTasks : CanImportSettled(st, y[1], y[2], y[3])}}
  \cup {<<"WhenReadyResume", x[1], x[2], 0>> :
     x \in {y \in DOMAIN st.scanTasks : CanWhenReadyResume(st, y[1], y[2])}}
  \cup {<<"ScanFinish", x[1], x[2], 0>> :
     x \in {y \in DOMAIN st.scanTasks : CanScanFinish(st, y[1], y[2])}}
  \cup {<<"AnalyzeScanned", x[1], x[2], 0>> :
     x \in {y \in DOMAIN st.analyzeTasks : CanAnalyzeScanned(st, y[1], y[2])}}
  \cup {<<"PackageSettle", c, "", 0>> :
     c \in {d \in DOMAIN st.packageTasks : CanPackageSettle(st, d)}}

\* Microtask m runs.
RunMicrotask(st, m) ==
  CASE m[1] = "ParseSettle" -> ParseSettle(st, m[2], m[3])
    [] m[1] = "ScanLocalParsed" -> ScanLocalParsed(st, m[2], m[3])
    [] m[1] = "ScanDocument" -> ScanDocument(st, m[2], m[3])
    [] m[1] = "ScanLocalFinish" -> ScanLocalFinish(st, m[2], m[3])
    [] m[1] = "ScanLocalSettled" -> ScanLocalSettled(st, m[2], m[3])
    [] m[1] = "ImportSettled" -> ImportSettled(st, m[2], m[3], m[4])
    [] m[1] = "WhenReadyResume" -> WhenReadyResume(st, m[2], m[3])
    [] m[1] = "ScanFinish" -> ScanFinish(st, m[2], m[3])
    [] m[1] = "AnalyzeScanned" -> AnalyzeScanned(st, m[2], m[3])
    [] m[1] = "PackageSettle" -> PackageSettle(st, m[2])

\* The state when no microtask is left.
RECURSIVE RunMicrotasks(_)
RunMicrotasks(st) ==
  LET pending == PendingMicrotasks(st)
  IN IF pending = {} THEN st
     ELSE RunMicrotasks(RunMicrotask(st, CHOOSE m \in pending : TRUE))

(***************************************************************************)
(* Forking: DependencyGraph.invalidate, AnalysisCache.invalidate, _fork.   *)
(***************************************************************************)
\* A slip: invalidate drops the changed URLs only.
DependantsForgotten(defs, k, set) == set

\* The URLs of `set' and every URL that imports one of them, transitively,
\* by the successors recorded in the graph of cache k.
RECURSIVE Dependants(_, _, _)
Dependants(defs, k, set) ==
  LET more == {u \in Url \ set :
                 /\ IsRecorded(defs, k, u)
                 /\ Range(defs[<<k, u>>].value) \cap set # {}}
  IN IF more = {} THEN set ELSE Dependants(defs, k, set \cup more)

\* The keys AnalysisCache.invalidate(urls) leaves out of the new cache.
InvalidationSet(defs, k, urls) == Dependants(defs, k, urls)

\* A table of all caches, with cache `new' added: the entries of cache k
\* whose keys are not dropped, carried over by reference.
InvalidatedTable(table, k, new, dropped) ==
  [x \in (DOMAIN table) \cup
         {<<new, u>> : u \in {v \in Url \ dropped : <<k, v>> \in DOMAIN table}} |->
     IF x[1] = new THEN table[<<k, x[2]>>] ELSE table[x]]

\* The graphs of all caches, with the graph of cache `new' added: the
\* successors recorded for the keys that are not dropped.
InvalidatedGraph(defs, k, new, dropped) ==
  [x \in (DOMAIN defs) \cup
         {<<new, u>> : u \in {v \in Url \ dropped : IsRecorded(defs, k, v)}} |->
     IF x[1] = new THEN defs[<<k, x[2]>>] ELSE defs[x]]

\* A slip: the new cache keeps every entry of scannedDocuments.
InvalidateKeepsScannedDocuments(st, k, new, urls) ==
  LET dropped == InvalidationSet(st._deferreds, k, urls)
  IN [st EXCEPT
        !.parsedDocumentPromises = InvalidatedTable(@, k, new, dropped),
        !.scannedDocumentPromises = InvalidatedTable(@, k, new, dropped),
        !.dependenciesScannedPromises = InvalidatedTable(@, k, new, dropped),
        !.analyzedDocumentPromises = InvalidatedTable(@, k, new, dropped),
        !.scannedDocuments = InvalidatedTable(@, k, new, {}),
        !.analyzedDocuments = InvalidatedTable(@, k, new, dropped),
        !._deferreds = InvalidatedGraph(@, k, new, dropped)]

\* this._cache.invalidate(urls): the program with the new AnalysisCache,
\* cache `new', made from cache k.
Invalidate(st, k, new, urls) ==
  LET dropped == InvalidationSet(st._deferreds, k, urls)
  IN [st EXCEPT
        !.parsedDocumentPromises = InvalidatedTable(@, k, new, dropped),
        !.scannedDocumentPromises = InvalidatedTable(@, k, new, dropped),
        !.dependenciesScannedPromises = InvalidatedTable(@, k, new, dropped),
        !.analyzedDocumentPromises = InvalidatedTable(@, k, new, dropped),
        !.scannedDocuments = InvalidatedTable(@, k, new, dropped),
        !.analyzedDocuments = InvalidatedTable(@, k, new, dropped),
        !._deferreds = InvalidatedGraph(@, k, new, dropped)]

\* A slip: the copy keeps the generation of context c.
ForkedContextSameGeneration(st, c, cache) ==
  [st.contexts[c] EXCEPT !._cache = cache]

\* _fork(cache): the copy made of context c.
ForkedContext(st, c, cache) ==
  [_cache |-> cache,
   _generation |-> st.contexts[c]._generation + 1,
   _parsers |-> st.contexts[c]._parsers,
   _scanners |-> st.contexts[c]._scanners,
   _loader |-> st.contexts[c]._loader,
   _resolver |-> st.contexts[c]._resolver,
   _lazyEdges |-> st.contexts[c]._lazyEdges,
   _telemetryTracker |-> st.contexts[c]._telemetryTracker]

\* The cache the next `new AnalysisCache()' is.
NewCache(st) == Len(st.contexts) + 1

\* The URLs whose analyze() promise in the cache of context c is settled.
AnalyzedUrls(st, c) ==
  {u \in Url :
     /\ <<CacheOf(st, c), u>> \in DOMAIN st.analyzedDocumentPromises
     /\ Settled(st.analyzeTasks[
           <<st.analyzedDocumentPromises[<<CacheOf(st, c), u>>], u>>])}

\* The history of a fork of context c: what the cache of c held when the
\* copy was made.
ForkRecord(st, c) == [from |-> c, analyzed |-> AnalyzedUrls(st, c)]

\* A slip: filesChanged hands no URL to invalidate.
FilesChangedInvalidatesNothing(st, c, urls) ==
  LET new == NewCache(st)
  IN [Invalidate(st, CacheOf(st, c), new, {}) EXCEPT
        !.contexts = Append(@, ForkedContext(st, c, new)),
        !.forks = Append(@, ForkRecord(st, c))]

\* filesChanged(urls) of context c: the program with the new context.
FilesChangedEffect(st, c, urls) ==
  LET new == NewCache(st)
      invalidated == Invalidate(st, CacheOf(st, c), new,
                                {ResolveUrl(url) : url \in urls})
  IN [invalidated EXCEPT
        !.contexts = Append(@, ForkedContext(st, c, new)),
        !.forks = Append(@, ForkRecord(st, c))]

\* clearCaches() of context c: the program with the new context.
ClearCachesEffect(st, c) ==
  [st EXCEPT !.contexts = Append(@, ForkedContext(st, c, NewCache(st))),
             !.forks = Append(@, ForkRecord(st, c))]

(***************************************************************************)
(* The analyzer: one root context, any world; the tasks of the event loop  *)
(* are the calls of the analyzer's users and the answers of the loader.    *)
(***************************************************************************)
\* analyze(url) on context c.
Analyze(c, url) ==
  Becomes(RunMicrotasks(AnalyzeCall(State, c, url)))

\* _getDocument(url) on context c, by a plugin.
GetDocument(c, url) ==
  Becomes(RunMicrotasks(GetDocumentEffect(State, c, ResolveUrl(url))))

\* filesChanged([url]) on context c; the caller keeps both contexts.
FilesChanged(c, url) ==
  /\ Len(contexts) < MaxContexts
  /\ Becomes(RunMicrotasks(FilesChangedEffect(State, c, {url})))

\* clearCaches() on context c; the caller keeps both contexts.
ClearCaches(c) ==
  /\ Len(contexts) < MaxContexts
  /\ Becomes(RunMicrotasks(ClearCachesEffect(State, c)))

\* The loader answers load(url) of context c's _parse: the closure goes
\* on, and with it everything that waited for it.
LoadCompletes(c, url) ==
  /\ <<c, url>> \in DOMAIN parseTasks
  /\ parseTasks[<<c, url>>].pc = "load"
  /\ LoadOutcome(url) = ""
  /\ Becomes(RunMicrotasks(ParseSettle(State, c, url)))

Init ==
  /\ _deferreds = << >>
  /\ joins = << >>
  /\ resolveErrors = {}
  /\ fs \in Worlds
  /\ contexts = <<RootContext>>
  /\ parsedDocumentPromises = << >>
  /\ scannedDocumentPromises = << >>
  /\ dependenciesScannedPromises = << >>
  /\ analyzedDocumentPromises = << >>
  /\ scannedDocuments = << >>
  /\ analyzedDocuments = << >>
  /\ parseTasks = << >>
  /\ localTasks = << >>
  /\ scanTasks = << >>
  /\ analyzeTasks = << >>
  /\ importTasks = << >>
  /\ warnings = << >>
  /\ handles = {}
  /\ forks = << >>
  /\ packageTasks = << >>

Next ==
  \/ \E c \in Contexts, url \in DOMAIN fs : Analyze(c, url)
  \/ \E c \in Contexts, url \in DOMAIN fs : GetDocument(c, url)
  \/ \E c \in Contexts, url \in DOMAIN fs : FilesChanged(c, url)
  \/ \E c \in Contexts : ClearCaches(c)
  \/ \E c \in Contexts, url \in DOMAIN fs : LoadCompletes(c, url)

Spec == Init /\ [][Next]_vars

\* analyzePackage() on context c, once.
AnalyzePackage(c) ==
  /\ c \notin DOMAIN packageTasks
  /\ Becomes(RunMicrotasks(AnalyzePackageCall(State, c)))

\* The loader answers readDirectory() of context c's analyzePackage.
ReadDirectoryCompletes(c) ==
  /\ c \in DOMAIN packageTasks
  /\ packageTasks[c].pc = "readDirectory"
  /\ Becomes(RunMicrotasks(ReadDirectoryDone(State, c)))

PackageInit == Init /\ fs \in PackageWorlds

PackageNext ==
  \/ Next
  \/ \E c \in Contexts : AnalyzePackage(c)
  \/ \E c \in Contexts : ReadDirectoryCompletes(c)

\* The analyzer with analyzePackage among its calls.
PackageSpec == PackageInit /\ [][PackageNext]_vars

(***************************************************************************)
(* Claims about the join primitive.                                        *)
(***************************************************************************)
\* Successors are recorded as a.html -> {b.html} and b.html -> {a.html}.
CycleRecorded ==
  /\ IsRecorded(_deferreds, Standalone, "a.html")
  /\ IsRecorded(_deferreds, Standalone, "b.html")
  /\ _deferreds[<<Standalone, "a.html">>].value = <<"b.html">>
  /\ _deferreds[<<Standalone, "b.html">>].value = <<"a.html">>

JoinReturned(id) == id \in DOMAIN joins /\ joins[id].waiting = <<>>

\* C2: with a.html -> {b.html} and b.html -> {a.html} recorded, no
\* promiseAllTransitive call hangs (a call that has not returned can be
\* resumed), no call descends into a key twice, and a call that returned
\* has descended into each of a.html and b.html exactly once.
C2_CycleSafe ==
  CycleRecorded =>
    \A key \in JoinStarts :
      <<Standalone, key>> \in DOMAIN joins =>
        LET j == joins[<<Standalone, key>>]
        IN /\ \A k \in {"a.html", "b.html"} :
                /\ Occurrences(j.log, k) <= 1
                /\ j.waiting = <<>> => Occurrences(j.log, k) = 1
           /\ j.waiting # <<>> => ENABLED StandaloneResume(key)

\* Both calls have returned on the recorded two-cycle.
C2_Witness ==
  /\ CycleRecorded
  /\ JoinReturned(<<Standalone, "a.html">>)
  /\ JoinReturned(<<Standalone, "b.html">>)

(***************************************************************************)
(* Claims about the pipeline.                                              *)
(***************************************************************************)
\* The closure of a table's promise for key x = <<cache, url>>.
TaskOf(tasks, table, x) == tasks[<<table[x], x[2]>>]

\* No analysis, scan or parse of context c waits for the loader.
Quiescent(c) ==
  \A x \in DOMAIN parseTasks : x[1] = c => parseTasks[x].pc # "load"

\* C1: in each of the four memoization caches of every AnalysisCache, the
\* computation behind a key has been started exactly once, however many
\* requests were made for it, and every requester (a caller of analyze, the
\* closure of analyze, of _scan, of _scanLocal, an import's wrapper) holds
\* the one promise the cache holds for the key, so that all of them see the
\* same result or failure.
C1_ComputedOnce ==
  /\ \A x \in DOMAIN parsedDocumentPromises :
       TaskOf(parseTasks, parsedDocumentPromises, x).runs = 1
  /\ \A x \in DOMAIN scannedDocumentPromises :
       TaskOf(localTasks, scannedDocumentPromises, x).runs = 1
  /\ \A x \in DOMAIN dependenciesScannedPromises :
       TaskOf(scanTasks, dependenciesScannedPromises, x).runs = 1
  /\ \A x \in DOMAIN analyzedDocumentPromises :
       TaskOf(analyzeTasks, analyzedDocumentPromises, x).runs = 1
  /\ \A h \in handles :
       h.promise = analyzedDocumentPromises[<<contexts[h.context]._cache, h.url>>]
  /\ \A x \in DOMAIN analyzeTasks :
       analyzeTasks[x].pc = "awaitScan" =>
         analyzeTasks[x].scan =
           dependenciesScannedPromises[<<contexts[x[1]]._cache, x[2]>>]
  /\ \A x \in DOMAIN scanTasks :
       scanTasks[x].local =
         scannedDocumentPromises[<<contexts[x[1]]._cache, x[2]>>]
  /\ \A x \in DOMAIN localTasks :
       localTasks[x].parse =
         parsedDocumentPromises[<<contexts[x[1]]._cache, x[2]>>]
  /\ \A x \in DOMAIN importTasks :
       importTasks[x].scan =
         dependenciesScannedPromises[<<contexts[x[1]]._cache, importTasks[x].url>>]

\* The transitive scan of b.html is pending and two requesters wait for
\* it: the closure of analyze(b.html) and the wrapper of a.html's import.
C1_Witness ==
  \E c \in Contexts :
    /\ <<c, "b.html">> \in DOMAIN scanTasks
    /\ ~Settled(scanTasks[<<c, "b.html">>])
    /\ <<c, "b.html">> \in DOMAIN analyzeTasks
    /\ analyzeTasks[<<c, "b.html">>].pc = "awaitScan"
    /\ analyzeTasks[<<c, "b.html">>].scan = c
    /\ \E x \in DOMAIN importTasks :
         /\ x[1] = c /\ x[2] = "a.html"
         /\ importTasks[x].pc = "awaitScan"
         /\ importTasks[x].url = "b.html"
         /\ importTasks[x].scan = c

\* The URLs reachable from the URLs of `set' through the non-lazy imports
\* the files contain.
RECURSIVE ReachableByImports(_)
ReachableByImports(set) ==
  LET more == UNION {Range(ScanImportUrls(u)) : u \in set \cap DOMAIN fs} \ set
  IN IF more = {} THEN set ELSE ReachableByImports(set \cup more)

\* C3: when the transitive scan of a URL by a context has completed, the
\* dependency graph of the context's cache has the successors of every URL
\* reachable from it through non-lazy imports; and a whenReady call that
\* has returned has descended into every one of them.
C3_ScanAfterLocalScans ==
  \A x \in DOMAIN scanTasks :
    LET k == contexts[x[1]]._cache
    IN /\ scanTasks[x].pc = "resolved" =>
            \A u \in ReachableByImports({x[2]}) : IsRecorded(_deferreds, k, u)
       /\ (x \in DOMAIN joins /\ joins[x].waiting = <<>>) =>
            \A u \in ReachableByImports({x[2]}) :
              /\ IsRecorded(_deferreds, k, u)
              /\ Occurrences(joins[x].log, u) = 1

\* The scan of a.html has completed where c.html is reached through b.html.
C3_Witness ==
  /\ fs = DiamondWorld
  /\ <<1, "a.html">> \in DOMAIN scanTasks
  /\ scanTasks[<<1, "a.html">>].pc = "resolved"
  /\ ReachableByImports({"a.html"}) = {"a.html", "b.html", "c.html"}
  /\ _deferreds[<<1, "b.html">>].value = <<"c.html">>

\* The cache of context c holds a local scan that was carried over from
\* another cache and whose successors its dependency graph does not have.
CarriedUnrecorded(c) ==
  \E u \in Url :
    /\ <<contexts[c]._cache, u>> \in DOMAIN scannedDocumentPromises
    /\ scannedDocumentPromises[<<contexts[c]._cache, u>>] # c
    /\ ~IsRecorded(_deferreds, contexts[c]._cache, u)

\* The warnings of the importer's scanned document, for the wrapper x of
\* one of its imports.
ImporterWarnings(x) == warnings[<<importTasks[x].document, x[2]>>]

CouldNotLoad(importUrl) == [code |-> "could-not-load", import |-> importUrl]

\* The scan the wrapper x awaited.
ImportScan(x) == scanTasks[<<importTasks[x].scan, importTasks[x].url>>]

\* C4: when the scan of an eager import has failed because the import
\* cannot be loaded, the importer's scanned document has a could-not-load
\* warning for it and, once the loader has answered every request of the
\* context, the importer's own transitive scan has completed successfully.
C4_ImportFailureIsolated ==
  \A x \in DOMAIN importTasks :
    ( /\ importTasks[x].pc = "done"
      /\ ImportScan(x).pc = "rejected"
      /\ ImportScan(x).error = "Can't load URL"
      /\ ~CarriedUnrecorded(x[1])
      /\ Quiescent(x[1]) )
    => /\ CouldNotLoad(importTasks[x].url) \in ImporterWarnings(x)
       /\ scanTasks[<<x[1], x[2]>>].pc = "resolved"

\* C5: when the scan of an eager import has failed with NoKnownParserError,
\* the importer's scanned document has no warning for that import and the
\* importer's scan has not failed.
C5_UnknownTypeSwallowed ==
  \A x \in DOMAIN importTasks :
    ( /\ importTasks[x].pc = "done"
      /\ ImportScan(x).pc = "rejected"
      /\ ImportScan(x).error = "NoKnownParserError" )
    => /\ CouldNotLoad(importTasks[x].url) \notin ImporterWarnings(x)
       /\ scanTasks[<<x[1], x[2]>>].pc # "rejected"

\* The URLs the file at url imports lazily only.
LazyTargets(url) ==
  {ResolveUrl(fs[url].imports[i].url) :
     i \in {j \in DOMAIN fs[url].imports :
              fs[url].imports[j].type = "lazy-html-import"}}
  \ {ResolveUrl(fs[url].imports[i].url) :
       i \in {j \in DOMAIN fs[url].imports :
                fs[url].imports[j].type # "lazy-html-import"}}

\* C6: the successors recorded for a URL in any dependency graph contain
\* none of its lazy imports, _scan starts no wrapper (no recursive scan)
\* for a lazy import, and a whenReady call descends into and waits for
\* nothing but what is reachable through non-lazy imports.
C6_LazyExcluded ==
  /\ \A x \in DOMAIN _deferreds :
       (_deferreds[x].resolved /\ x[2] \in DOMAIN fs) =>
         Range(_deferreds[x].value) \cap LazyTargets(x[2]) = {}
  /\ \A x \in DOMAIN importTasks :
       importTasks[x].url \notin LazyTargets(x[2])
  /\ \A x \in DOMAIN joins :
       /\ Range(joins[x].log) \subseteq ReachableByImports({x[2]})
       /\ Range(joins[x].waiting) \subseteq ReachableByImports({x[2]})

\* a.html, which imports b.html lazily, is scanned, and b.html was never
\* requested: nothing of it is recorded, scanned or parsed.
C6_Witness ==
  /\ fs = LazyWorld
  /\ <<1, "a.html">> \in DOMAIN scanTasks
  /\ scanTasks[<<1, "a.html">>].pc = "resolved"
  /\ joins[<<1, "a.html">>].waiting = <<>>
  /\ ~IsRecorded(_deferreds, 1, "b.html")
  /\ <<1, "b.html">> \notin DOMAIN dependenciesScannedPromises
  /\ <<1, "b.html">> \notin DOMAIN parsedDocumentPromises

\* The URLs reachable from the URLs of `set' through the successors
\* recorded in the dependency graph of cache k.
RECURSIVE ReachableByRecorded(_, _)
ReachableByRecorded(k, set) ==
  LET more == UNION {Range(_deferreds[<<k, u>>].value) :
                       u \in {v \in set : IsRecorded(_deferreds, k, v)}} \ set
  IN IF more = {} THEN set ELSE ReachableByRecorded(k, set \cup more)

\* Table `after' holds for cache `new' exactly the entries `before' holds
\* for cache k under the keys that are not dropped, and the same values.
CarriedOver(before, after, k, new, dropped) ==
  \A u \in Url :
    IF u \notin dropped /\ <<k, u>> \in DOMAIN before
    THEN <<new, u>> \in DOMAIN after /\ after[<<new, u>>] = before[<<k, u>>]
    ELSE <<new, u>> \notin DOMAIN after

\* What filesChanged([url]) on context c has to leave behind.
InvalidationScope(c, url) ==
  LET k == contexts[c]._cache
      new == contexts'[Len(contexts')]._cache
      dropped == {u \in Url : ResolveUrl(url) \in ReachableByRecorded(k, {u})}
  IN /\ CarriedOver(parsedDocumentPromises, parsedDocumentPromises', k, new, dropped)
     /\ CarriedOver(scannedDocumentPromises, scannedDocumentPromises', k, new, dropped)
     /\ CarriedOver(dependenciesScannedPromises, dependenciesScannedPromises',
                    k, new, dropped)
     /\ CarriedOver(analyzedDocumentPromises, analyzedDocumentPromises', k, new, dropped)
     /\ CarriedOver(scannedDocuments, scannedDocuments', k, new, dropped)
     /\ CarriedOver(analyzedDocuments, analyzedDocuments', k, new, dropped)
     /\ \A u \in Url :
          IF u \notin dropped /\ IsRecorded(_deferreds, k, u)
          THEN /\ IsRecorded(_deferreds', new, u)
               /\ _deferreds'[<<new, u>>] = _deferreds[<<k, u>>]
          ELSE ~IsRecorded(_deferreds', new, u)

\* C7: a step filesChanged([X]) on a context gives the new context a cache
\* that lacks exactly the entries keyed by X and by the URLs from which X
\* is reachable through the successors recorded in the old cache's graph
\* (cycles included), and that holds every other entry of the old cache
\* with the very same value.
C7_InvalidationScope ==
  [][\A c \in Contexts, url \in DOMAIN fs :
       (Len(contexts') = Len(contexts) + 1 /\ FilesChanged(c, url))
         => InvalidationScope(c, url)]_vars

\* filesChanged([b.html]) after a.html -> {b.html, c.html} and
\* b.html -> {c.html} were analyzed: a.html, which imports b.html, went
\* with it, c.html was carried over.
C7_Witness ==
  /\ fs = DiamondWorld
  /\ Len(contexts) = 2
  /\ forks[1].analyzed = {"a.html", "b.html", "c.html"}
  /\ <<2, "c.html">> \in DOMAIN dependenciesScannedPromises
  /\ dependenciesScannedPromises[<<2, "c.html">>] = 1
  /\ scannedDocuments[<<2, "c.html">>] = 1
  /\ <<2, "a.html">> \notin DOMAIN dependenciesScannedPromises
  /\ <<2, "b.html">> \notin DOMAIN dependenciesScannedPromises
  /\ <<2, "a.html">> \notin DOMAIN scannedDocuments

\* Context n was made by filesChanged([a.html]) of a context that had
\* analyzed the unrelated a.html and b.html: both were analyzed when the
\* copy was made and b.html's analysis was carried over.
ChangedAfterBoth(n) ==
  /\ fs = UnrelatedWorld
  /\ {"a.html", "b.html"} \subseteq forks[n - 1].analyzed
  /\ <<n, "b.html">> \in DOMAIN analyzedDocumentPromises
  /\ analyzedDocumentPromises[<<n, "b.html">>] # n

\* The entry of cache n for url, if there is one, was made by context n.
OwnEntry(table, n, url) ==
  <<n, url>> \in DOMAIN table => table[<<n, url>>] = n

Requested(c, url) == \E h \in handles : h.context = c /\ h.url = url

\* C8: in a context made by filesChanged([a.html]) after the unrelated
\* a.html and b.html were analyzed, no parse, local scan, transitive scan
\* or analysis of b.html is ever started; no entry of a.html is carried
\* over; and once a.html has been requested there, its parse, local scan,
\* transitive scan and analysis have each been started exactly once.
C8_UnrelatedServedFromCache ==
  \A n \in 2..Len(contexts) :
    ChangedAfterBoth(n) =>
      /\ <<n, "b.html">> \notin
           DOMAIN parseTasks \cup DOMAIN localTasks \cup DOMAIN scanTasks
             \cup DOMAIN analyzeTasks
      /\ OwnEntry(parsedDocumentPromises, n, "a.html")
      /\ OwnEntry(scannedDocumentPromises, n, "a.html")
      /\ OwnEntry(dependenciesScannedPromises, n, "a.html")
      /\ OwnEntry(analyzedDocumentPromises, n, "a.html")
      /\ OwnEntry(scannedDocuments, n, "a.html")
      /\ OwnEntry(analyzedDocuments, n, "a.html")
      /\ Requested(n, "a.html") =>
           /\ Runs(parseTasks, <<n, "a.html">>) = 1
           /\ Runs(localTasks, <<n, "a.html">>) = 1
           /\ Runs(scanTasks, <<n, "a.html">>) = 1
           /\ Runs(analyzeTasks, <<n, "a.html">>) = 1

\* Both were analyzed, a.html changed, and both were analyzed again in the
\* new context: b.html by the old promise, a.html by a new one.
C8_Witness ==
  /\ Len(contexts) = 2
  /\ ChangedAfterBoth(2)
  /\ [context |-> 2, url |-> "b.html", promise |-> 1] \in handles
  /\ [context |-> 2, url |-> "a.html", promise |-> 2] \in handles
  /\ analyzeTasks[<<2, "a.html">>].pc = "resolved"
  /\ Runs(parseTasks, <<2, "a.html">>) = 1
  /\ Runs(parseTasks, <<2, "b.html">>) = 0
  /\ analyzeTasks[<<1, "b.html">>].pc = "resolved"

\* Every entry of the table is in it after the step, unchanged, and the
\* step adds no entry for a cache below `new'.
Kept(before, after, new) ==
  /\ \A x \in DOMAIN before : x \in DOMAIN after /\ after[x] = before[x]
  /\ \A x \in DOMAIN after : x[1] # new => x \in DOMAIN before

\* C9: a step that makes a context (filesChanged or clearCaches) leaves
\* every context that exists, every entry of every table and graph of
\* every cache that exists, and every closure in flight as they are, and
\* adds no entry to a cache that exists; the
\* new context has the generation of the context it was made of plus one,
\* that context's parsers, scanners, loader, resolver, lazy-edge map and
\* telemetry tracker, and a cache no other context holds.
C9_ForkLeavesOldCache ==
  [][Len(contexts') = Len(contexts) + 1 =>
       LET n == Len(contexts')
           new == contexts'[n]
           old == contexts[forks'[n - 1].from]
       IN /\ SubSeq(contexts', 1, n - 1) = contexts
          /\ Kept(parsedDocumentPromises, parsedDocumentPromises', new._cache)
          /\ Kept(scannedDocumentPromises, scannedDocumentPromises', new._cache)
          /\ Kept(dependenciesScannedPromises, dependenciesScannedPromises', new._cache)
          /\ Kept(analyzedDocumentPromises, analyzedDocumentPromises', new._cache)
          /\ Kept(scannedDocuments, scannedDocuments', new._cache)
          /\ Kept(analyzedDocuments, analyzedDocuments', new._cache)
          /\ Kept(_deferreds, _deferreds', new._cache)
          /\ UNCHANGED <<taskVars, joins, warnings, handles>>
          /\ new._generation = old._generation + 1
          /\ new._parsers = old._parsers
          /\ new._scanners = old._scanners
          /\ new._loader = old._loader
          /\ new._resolver = old._resolver
          /\ new._lazyEdges = old._lazyEdges
          /\ new._telemetryTracker = old._telemetryTracker
          /\ \A i \in 1..(n - 1) : contexts[i]._cache # new._cache]_vars

\* The analysis of a.html was in flight in context 1 when context 2 was
\* made (its pending promise was carried over) and has completed in
\* context 1 since, with the Document of context 1.
C9_Witness ==
  /\ Len(contexts) = 2
  /\ contexts[2]._generation = 1
  /\ forks[1].analyzed = {}
  /\ <<2, "a.html">> \in DOMAIN analyzedDocumentPromises
  /\ analyzedDocumentPromises[<<2, "a.html">>] = 1
  /\ analyzeTasks[<<1, "a.html">>].pc = "resolved"
  /\ analyzeTasks[<<1, "a.html">>].doc = <<1>>
  /\ <<1, "a.html">> \in DOMAIN analyzedDocuments

PackageFiles ==
  {f \in DOMAIN fs :
     Dirname(f) \notin DependencyDirPrefixes /\ Extname(f) \in Parsers}

UnableToAnalyze(f) ==
  [kind |-> "Warning", code |-> "unable-to-analyze", file |-> f, doc |-> <<>>]

\* What the Package says about file f.
PackageEntries(p, f) == {d \in p.documents \cup p.warnings : d.file = f}

ClosuresKept(before, after) ==
  \A x \in DOMAIN before :
    /\ x \in DOMAIN after
    /\ after[x].runs = before[x].runs
    /\ Settled(before[x]) => after[x] = before[x]

\* A step keeps every entry of the table.
EntriesKept(before, after) ==
  \A x \in DOMAIN before : x \in DOMAIN after /\ after[x] = before[x]

\* C12: no step starts the closure of a memoized computation again or
\* changes the outcome of a settled one, failed ones included; no step
\* replaces the promise a cache holds for a key; and a caller that asks
\* analyze for a key the cache holds gets the promise it holds, so a
\* failure is observed again by every later request in that context.  A
\* closure for the key starts anew only as the closure of another context.
C12_FailureCached ==
  [][/\ ClosuresKept(parseTasks, parseTasks')
     /\ ClosuresKept(localTasks, localTasks')
     /\ ClosuresKept(scanTasks, scanTasks')
     /\ ClosuresKept(analyzeTasks, analyzeTasks')
     /\ EntriesKept(parsedDocumentPromises, parsedDocumentPromises')
     /\ EntriesKept(scannedDocumentPromises, scannedDocumentPromises')
     /\ EntriesKept(dependenciesScannedPromises, dependenciesScannedPromises')
     /\ EntriesKept(analyzedDocumentPromises, analyzedDocumentPromises')
     /\ \A h \in handles' :
          <<contexts'[h.context]._cache, h.url>> \in DOMAIN analyzedDocumentPromises
            => h.promise =
                 analyzedDocumentPromises[<<contexts'[h.context]._cache, h.url>>]
    ]_vars

\* The analysis of b.html failed in context 1, a caller of context 2, whose
\* cache b.html was not carried into, asked again, and it was parsed and
\* failed a second time there; each closure ran once.
C12_Witness ==
  /\ fs = BrokenWorld
  /\ <<1, "b.html">> \in DOMAIN analyzeTasks
  /\ <<2, "b.html">> \in DOMAIN analyzeTasks
  /\ analyzeTasks[<<1, "b.html">>].pc = "rejected"
  /\ analyzeTasks[<<2, "b.html">>].pc = "rejected"
  /\ analyzeTasks[<<1, "b.html">>].error = "Error parsing"
  /\ analyzeTasks[<<1, "b.html">>].runs = 1
  /\ parseTasks[<<2, "b.html">>].runs = 1
  /\ {"b.html"} \subseteq forks[1].analyzed

\* Is the closure behind the entry of cache k for u resolved?
EntryResolved(tasks, table, k, u) ==
  <<k, u>> \in DOMAIN table /\ TaskOf(tasks, table, <<k, u>>).pc = "resolved"

\* How far URL u has come in cache k in state st: 0 unloaded, 1 parsed,
\* 2 locally scanned, 3 transitively scanned, 4 analyzed.
PipelineState(st, k, u) ==
  IF <<k, u>> \in DOMAIN st.analyzedDocuments THEN 4
  ELSE IF EntryResolved(st.scanTasks, st.dependenciesScannedPromises, k, u) THEN 3
  ELSE IF EntryResolved(st.localTasks, st.scannedDocumentPromises, k, u) THEN 2
  ELSE IF EntryResolved(st.parseTasks, st.parsedDocumentPromises, k, u) THEN 1
  ELSE 0

\* C13: no step (analyze, _getDocument, filesChanged, clearCaches, an
\* answer of the loader) removes or replaces an entry of a promise cache,
\* of the scanned-document or the analyzed-document table, or the recorded
\* successors of a key of a dependency graph, of any cache; and no URL
\* falls back in the pipeline of any cache.
C13_CachesOnlyGrow ==
  [][/\ EntriesKept(parsedDocumentPromises, parsedDocumentPromises')
     /\ EntriesKept(scannedDocumentPromises, scannedDocumentPromises')
     /\ EntriesKept(dependenciesScannedPromises, dependenciesScannedPromises')
     /\ EntriesKept(analyzedDocumentPromises, analyzedDocumentPromises')
     /\ EntriesKept(scannedDocuments, scannedDocuments')
     /\ EntriesKept(analyzedDocuments, analyzedDocuments')
     /\ \A x \in DOMAIN _deferreds :
          /\ x \in DOMAIN _deferreds'
          /\ _deferreds[x].resolved => _deferreds'[x] = _deferreds[x]
     /\ \A i \in DOMAIN contexts, u \in Url :
          PipelineState(State', contexts[i]._cache, u)
            >= PipelineState(State, contexts[i]._cache, u)
    ]_vars

\* Everything of the diamond is analyzed in cache 1 and stays so after a
\* context was made from it by filesChanged, whose cache lacks a.html.
C13_Witness ==
  /\ fs = DiamondWorld
  /\ Len(contexts) = 2
  /\ forks[1].analyzed = {"a.html", "b.html", "c.html"}
  /\ \A u \in {"a.html", "b.html", "c.html"} : PipelineState(State, 1, u) = 4
  /\ PipelineState(State, 2, "a.html") = 0
  /\ PipelineState(State, 2, "c.html") = 4

(***************************************************************************)
(* More claims about the join primitive.                                   *)
(***************************************************************************)
\* C14: a resolve(key, deps) for a key whose successors are recorded
\* throws, and no step changes the successors recorded for a key, so the
\* list of the first call is the one every waiter gets.
C14_SecondResolveFails ==
  [][\A key \in JoinKeys :
       IsRecorded(_deferreds, Standalone, key) =>
         /\ _deferreds'[<<Standalone, key>>] = _deferreds[<<Standalone, key>>]
         /\ \A deps \in SeqsUpTo(JoinKeys, MaxDeps) :
              Resolve(key, deps) => <<Standalone, key>> \in resolveErrors'
    ]_vars

\* A second resolve for a.html has thrown, and a promiseAllTransitive call
\* for a.html that began before the first one has returned along the
\* successors of the first.
C14_Witness ==
  /\ <<Standalone, "a.html">> \in resolveErrors
  /\ IsRecorded(_deferreds, Standalone, "a.html")
  /\ _deferreds[<<Standalone, "a.html">>].value = <<"b.html">>
  /\ JoinReturned(<<Standalone, "a.html">>)
  /\ joins[<<Standalone, "a.html">>].log = <<"a.html", "b.html">>

(***************************************************************************)
(* The synchronous accessor.                                               *)
(***************************************************************************)
\* The entries of a table before a step are its entries after it, but for
\* the keys of new.
SameBut(before, after, new) ==
  /\ DOMAIN after = DOMAIN before \cup new
  /\ \A x \in DOMAIN before : after[x] = before[x]

AlreadyInCache == "Scanned document already in cache"

\* C16: no _scanLocal ever fails with 'Scanned document already in cache':
\* every entry of scannedDocuments was put there by the one closure behind
\* the scannedDocumentPromises entry of the same cache and URL, and that
\* closure ran once.
C16_NeverAlreadyInCache ==
  /\ \A y \in DOMAIN localTasks :
       /\ localTasks[y].error # AlreadyInCache
       /\ localTasks[y].runs = 1
  /\ \A x \in DOMAIN scannedDocuments :
       /\ x \in DOMAIN scannedDocumentPromises
       /\ scannedDocumentPromises[x] = scannedDocuments[x]

\* After filesChanged, the new context has scanned the changed URL again
\* and has been asked for a URL whose scanned document it carried over,
\* and the old context has been asked for the changed URL once more.
C16_Witness ==
  /\ Len(contexts) = 2
  /\ \E u, v \in Url :
       /\ <<1, u>> \in DOMAIN scannedDocuments
       /\ <<2, u>> \in DOMAIN scannedDocuments
       /\ <<2, v>> \in DOMAIN scannedDocuments
       /\ scannedDocuments[<<1, u>>] = 1
       /\ scannedDocuments[<<2, u>>] = 2
       /\ scannedDocuments[<<2, v>>] = 1
       /\ Requested(2, v)
       /\ Requested(1, u)
       /\ <<2, v>> \in DOMAIN analyzeTasks
       /\ analyzeTasks[<<2, v>>].pc = "resolved"

(***************************************************************************)
(* Joins begun before the successors are recorded.                         *)
(***************************************************************************)
\* The keys a promiseAllTransitive(key) call has to see recorded: key and
\* all keys reachable from it along the successors recorded so far.
JoinReach(key) == ReachableByRecorded(Standalone, {key})

\* The state part of C17, for the call begun for key.
JoinSharesDeferreds(key) ==
  LET id == <<Standalone, key>>
      j == joins[id]
  IN id \in DOMAIN joins =>
       /\ Range(j.log) \subseteq JoinReach(key)
       /\ \A i, n \in DOMAIN j.log : i # n => j.log[i] # j.log[n]
       /\ IF j.waiting = <<>>
          THEN \* returned: all reachable keys are recorded and visited
               /\ \A k \in JoinReach(key) : IsRecorded(_deferreds, Standalone, k)
               /\ Range(j.log) = JoinReach(key)
          ELSE \* waiting on the one Deferred of a reachable key, which
               \* resolve(key, deps) completes: then the call goes on
               /\ j.waiting[1] \in JoinReach(key)
               /\ <<Standalone, j.waiting[1]>> \in DOMAIN _deferreds
               /\ IsRecorded(_deferreds, Standalone, j.waiting[1]) =>
                    LET next == TransitiveAwaitResumed(_deferreds, j)
                    IN \/ next.waiting = <<>>
                       \/ next.waiting[1] \notin Range(j.log)

\* The step part of C17: a call that goes on has returned or waits on one
\* more key than before, and a call that has returned stays returned.
JoinAdvances(key) ==
  LET id == <<Standalone, key>>
  IN (id \in DOMAIN joins /\ joins'[id] # joins[id]) =>
       /\ joins[id].waiting # <<>>
       /\ IsRecorded(_deferreds, Standalone, joins[id].waiting[1])
       /\ \/ joins'[id].waiting = <<>>
          \/ Len(joins'[id].log) = Len(joins[id].log) + 1

\* C17: a promiseAllTransitive(key) call waits on the Deferred that
\* resolve completes, whichever was first; it goes on only when the key it
\* waits on is recorded, each time it goes on it returns or waits on a key
\* it has not visited (so it returns after at most one wait per key once
\* all reachable keys are recorded), and it has returned only if all keys
\* reachable from key are recorded.
C17_JoinWaitsForRecords ==
  /\ [](\A key \in JoinStarts : JoinSharesDeferreds(key))
  /\ [][\A key \in JoinStarts : JoinAdvances(key)]_vars

\* The call for a.html began before anything was recorded, a.html was
\* recorded since with b.html and c.html, b.html is recorded, and the call
\* waits on the Deferred of c.html, which nobody has recorded.
C17_Witness ==
  /\ <<Standalone, "a.html">> \in DOMAIN joins
  /\ joins[<<Standalone, "a.html">>].log = <<"a.html", "b.html", "c.html">>
  /\ joins[<<Standalone, "a.html">>].waiting = <<"c.html">>
  /\ <<Standalone, "c.html">> \in DOMAIN _deferreds
  /\ ~IsRecorded(_deferreds, Standalone, "c.html")
  /\ ~ENABLED StandaloneResume("a.html")

(***************************************************************************)
(* Siblings of a failed import.                                            *)
(***************************************************************************)
\* Can url and everything it imports, transitively, be loaded and parsed?
Sound(url) ==
  \A v \in ReachableByImports({url}) :
    /\ LoadOutcome(v) = ""
    /\ ParseContentsOutcome(v) = ""

\* C18: when the scan of an import of a document has failed, a wrapper has
\* been started for every eager import of the document, each holding the
\* promise of its import's scan; the scan of a sibling that can be loaded
\* and parsed with all it imports has completed once the loader has
\* answered every request of the contexts involved; and the importer's scan
\* is not rejected.
C18_SiblingsUnaffected ==
  \A x \in DOMAIN importTasks :
    ImportScan(x).pc = "rejected" =>
      /\ \A i \in DOMAIN ScanImportUrls(x[2]) :
           LET y == <<x[1], x[2], i>>
           IN /\ y \in DOMAIN importTasks
              /\ importTasks[y].url = ScanImportUrls(x[2])[i]
              /\ <<importTasks[y].scan, importTasks[y].url>> \in DOMAIN scanTasks
              /\ ( /\ Sound(importTasks[y].url)
                   /\ Quiescent(importTasks[y].scan)
                   /\ Quiescent(x[1]) )
                 => /\ ImportScan(y).pc = "resolved"
                    /\ importTasks[y].pc = "done"
      /\ scanTasks[<<x[1], x[2]>>].pc # "rejected"

\* a.html imports missing.html and b.html: the scan of missing.html has
\* failed and its wrapper has run, the scan of b.html has completed, and
\* the scan of a.html is not rejected.
C18_Witness ==
  /\ fs = MissingWorld
  /\ <<1, "a.html", 1>> \in DOMAIN importTasks
  /\ <<1, "a.html", 2>> \in DOMAIN importTasks
  /\ ImportScan(<<1, "a.html", 1>>).pc = "rejected"
  /\ importTasks[<<1, "a.html", 1>>].pc = "done"
  /\ importTasks[<<1, "a.html", 2>>].url = "b.html"
  /\ ImportScan(<<1, "a.html", 2>>).pc = "resolved"
  /\ importTasks[<<1, "a.html", 2>>].pc = "done"
  /\ scanTasks[<<1, "a.html">>].pc # "rejected"

(***************************************************************************)
(* The dependency graph and the scanned-document table.                    *)
(***************************************************************************)
\* Every URL whose successors are recorded in the graph of a cache is in
\* the scannedDocuments of that cache.
RecordedIsScanned ==
  \A x \in DOMAIN _deferreds :
    IsRecorded(_deferreds, x[1], x[2]) => x \in DOMAIN scannedDocuments

\* Where the cache of context c holds a completed transitive scan of url,
\* _getScannedDocument and _getDocument of c are defined for every URL
\* reachable from url by non-lazy imports.
ScannedIsDefined(c, url) ==
  LET k == contexts[c]._cache
  IN ( /\ <<k, url>> \in DOMAIN dependenciesScannedPromises
       /\ TaskOf(scanTasks, dependenciesScannedPromises, <<k, url>>).pc = "resolved" )
     => \A v \in ReachableByImports({url}) :
          /\ <<k, v>> \in DOMAIN scannedDocuments
          /\ GetDocumentResult(State, c, v) # <<>>

\* C19: a URL recorded in the dependency graph of a cache is in its
\* scannedDocuments; hence, when the transitive scan of a URL has
\* completed, the two synchronous accessors are defined for every URL
\* reachable from it by non-lazy imports.
C19_ScannedBeforeRecorded ==
  /\ RecordedIsScanned
  /\ \A c \in Contexts, url \in Url : ScannedIsDefined(c, url)

(***************************************************************************)
(* One Document per URL and cache.                                         *)
(***************************************************************************)
\* The Document a settled analyze() promise held by a caller resolved to
\* is the one analyzedDocuments of the caller's cache holds for the URL,
\* which _getDocument returns from now on.
AnalyzeGivesCachedDocument(h) ==
  LET t == analyzeTasks[<<h.promise, h.url>>]
      x == <<contexts[h.context]._cache, h.url>>
  IN t.pc = "resolved" =>
       /\ x \in DOMAIN analyzedDocuments
       /\ t.doc = <<analyzedDocuments[x]>>
       /\ GetDocumentResult(State, h.context, h.url) = t.doc

\* A step constructs no Document for a URL whose cache holds one.
DocumentConstructedOnce ==
  \A x \in DOMAIN analyzedDocuments :
    x \in DOMAIN analyzedDocuments' /\ analyzedDocuments'[x] = analyzedDocuments[x]

\* C20: in a cache a Document is constructed at most once per URL, and
\* the Document analyze(url) resolves to is the one analyzedDocuments
\* holds for the URL and every later _getDocument(url) returns.
C20_OneDocumentPerUrl ==
  /\ [](\A h \in handles : AnalyzeGivesCachedDocument(h))
  /\ [][DocumentConstructedOnce]_vars

(***************************************************************************)
(* addDocument is called once per URL and cache.                           *)
(***************************************************************************)
AlreadyResolved == "Already resolved"

\* C21: in every cache dependencyGraph.addDocument is called at most once
\* per URL: no resolve() of a dependency graph has thrown, no local scan
\* has failed with the double-record error, a cache has one local-scan
\* closure per URL, run once, and the successors recorded for a URL
\* scanned by a cache's own closure are the ones that closure handed over.
C21_AddDocumentOnce ==
  /\ resolveErrors = {}
  /\ \A y \in DOMAIN localTasks :
       /\ localTasks[y].error # AlreadyResolved
       /\ localTasks[y].runs = 1
       /\ \A z \in DOMAIN localTasks :
            (z[2] = y[2] /\ contexts[z[1]]._cache = contexts[y[1]]._cache) => z = y
       /\ localTasks[y].pc = "resolved" =>
            /\ IsRecorded(_deferreds, contexts[y[1]]._cache, y[2])
            /\ _deferreds[<<contexts[y[1]]._cache, y[2]>>].value
                 = ScanLocalImportUrls(y[2])

\* The diamond: a.html is scanned with b.html and c.html, c.html being
\* imported twice, and all three are recorded in the graph of the root
\* cache.
C21_Witness ==
  /\ fs = DiamondWorld
  /\ <<1, "a.html">> \in DOMAIN scanTasks
  /\ scanTasks[<<1, "a.html">>].pc = "resolved"
  /\ \A u \in {"a.html", "b.html", "c.html"} :
       /\ IsRecorded(_deferreds, 1, u)
       /\ localTasks[<<1, u>>].pc = "resolved"
  /\ <<1, "a.html", 2>> \in DOMAIN importTasks
  /\ <<1, "b.html", 1>> \in DOMAIN importTasks
  /\ importTasks[<<1, "a.html", 2>>].url = "c.html"
  /\ importTasks[<<1, "b.html", 1>>].url = "c.html"
  /\ importTasks[<<1, "a.html", 2>>].pc = "done"
  /\ importTasks[<<1, "b.html", 1>>].pc = "done"

(***************************************************************************)
(* filesChanged while a local scan is in flight.                           *)
(***************************************************************************)
\* The local scan of url that cache k holds was begun by another context
\* (the entry was carried over by filesChanged) and has completed.
CarriedScanCompleted(c, url) ==
  LET x == <<contexts[c]._cache, url>>
  IN /\ x \in DOMAIN scannedDocumentPromises
     /\ scannedDocumentPromises[x] # c
     /\ TaskOf(localTasks, scannedDocumentPromises, x).pc = "resolved"

\* C22: when a context made by filesChanged holds the carried-over local
\* scan of B, an analysis begun in that context of a URL that eagerly
\* imports B (and that can be loaded and parsed with all it imports) has
\* completed once the loader has answered every request, B's successors
\* being recorded in the dependency graph of the new cache.
C22_CarriedScanRecorded ==
  \A h \in handles :
    \A B \in IF h.url \in DOMAIN fs THEN Range(ScanImportUrls(h.url)) ELSE {} :
      ( /\ h.promise = h.context
        /\ CarriedScanCompleted(h.context, B)
        /\ Sound(h.url)
        /\ \A c \in Contexts : Quiescent(c) )
      => /\ IsRecorded(_deferreds, contexts[h.context]._cache, B)
         /\ analyzeTasks[<<h.promise, h.url>>].pc = "resolved"

====
